---- MODULE Spec2Model ----
(***************************************************************************)
(* Model of the eCFR ingestion pipeline of src/Home.py: the Chunker        *)
(* (chunk_text), the XML Structural Extractor with its Corpus Indexer side *)
(* effect (count_words_in_xml) and the Relational Loader (load_data).      *)
(***************************************************************************)
EXTENDS Integers, Sequences, FiniteSets, TLC

VARIABLES
    \* chunk_text: its two arguments, its return value, and whether it ran
    text, max_chunk_size, chunks, cpc,
    \* count_words_in_xml: its two arguments, its return value, and whether it ran
    arg_xml, arg_title, chapter_word_counts, xpc,
    \* the documents of the vector store's collection ecfr_content, in insertion
    \* order, the add calls made on it since the last clear, and for each of
    \* them whether it raised
    collection, add_calls, add_raised,
    \* the DuckDB connection con: the five tables as the connection sees them,
    \* the tables as of BEGIN TRANSACTION, and whether a transaction is open
    con,
    \* load_data: where it stands, its locals agencies and titles, the number
    \* of titles processed, and what was fetched for each of them
    pc, agencies, titles, done, fetched,
    \* the run of load_data under way or just ended: the tables and the
    \* collection when it was called, the step that failed ("" if none),
    \* whether COMMIT and ROLLBACK were carried out, whether load_data called
    \* st.error, and whether an exception left load_data
    pre, pre_collection, failed_at, committed, rolled_back, reported, escaped,
    \* the embeddings of the collection's documents, as the distance the store
    \* computes between the documents at positions i and j
    distances,
    \* the similarity scan: where it stands, its locals all_docs,
    \* similarity_pairs, seen_pairs and top_pairs, the document of the current
    \* iteration, and what each query returned so far (<<>> if it returned nothing)
    spc, all_docs, similarity_pairs, seen_pairs, top_pairs, doc_index, query_log

loadVars == <<con, pc, agencies, titles, done, fetched>>
runVars == <<pre, pre_collection, failed_at, committed, rolled_back, reported, escaped>>

chunkVars == <<text, max_chunk_size, chunks, cpc>>
xmlVars == <<arg_xml, arg_title, chapter_word_counts, xpc>>
storeVars == <<collection, add_calls, add_raised>>
scanVars == <<distances, spc, all_docs, similarity_pairs, seen_pairs, top_pairs, doc_index,
              query_log>>

vars == <<chunkVars, xmlVars, storeVars, loadVars, runVars, scanVars>>

-----------------------------------------------------------------------------
(* Bounds of the model *)

\* longest input text of the Chunker, in characters
MaxTextLen == 7
\* largest max_chunk_size of the Chunker (the character budget is four times it)
MaxChunkSize == 2
\* most elements below the root of a document given to count_words_in_xml
MaxElems == 2
\* most add calls that the store fails during one count_words_in_xml
MaxAddFailures == 1
\* most title records in a response of the titles endpoint
MaxTitles == 2
\* most documents of a store whose embeddings are arbitrary
MaxDocs == 3
\* most queries that the store fails during one similarity scan
MaxQueryFailures == 1

-----------------------------------------------------------------------------
(* Strings: a text is a sequence of characters *)

Whitespace == {" ", "\n"}
Alphabet == {"a"} \cup Whitespace

RECURSIVE TextsOfLen(_)
TextsOfLen(n) ==
    IF n = 0 THEN {<<>>}
    ELSE {Append(t, c) : t \in TextsOfLen(n - 1), c \in Alphabet}

Texts == UNION {TextsOfLen(n) : n \in 0..MaxTextLen}

\* str.split(): the maximal runs of non-whitespace characters, in order
RECURSIVE SplitFrom(_, _, _, _)
SplitFrom(s, i, word, acc) ==
    IF i > Len(s)
    THEN IF word = <<>> THEN acc ELSE Append(acc, word)
    ELSE IF s[i] \in Whitespace
         THEN SplitFrom(s, i + 1, <<>>, IF word = <<>> THEN acc ELSE Append(acc, word))
         ELSE SplitFrom(s, i + 1, Append(word, s[i]), acc)

Split(s) == SplitFrom(s, 1, <<>>, <<>>)

Range(seq) == {seq[i] : i \in DOMAIN seq}

\* ' '.join(words)
RECURSIVE Join(_)
Join(words) ==
    IF words = <<>> THEN <<>>
    ELSE IF Len(words) = 1 THEN words[1]
    ELSE words[1] \o <<" ">> \o Join(Tail(words))

-----------------------------------------------------------------------------
(* chunk_text *)

\* the locals of chunk_text before its loop; chunks holds each closed chunk as
\* the list of words that ' '.join turns into the chunk
ChunkStart == [chunks |-> <<>>, current_chunk |-> <<>>, current_length |-> 0]

\* a slip of the loop body: the word that closes a chunk is not carried over
ChunkStepDropsWord(st, word, word_length, budget) ==
    IF st.current_length + word_length > budget
    THEN [chunks |-> Append(st.chunks, st.current_chunk),
          current_chunk |-> <<>>,
          current_length |-> 0]
    ELSE [chunks |-> st.chunks,
          current_chunk |-> Append(st.current_chunk, word),
          current_length |-> st.current_length + word_length + 1]

\* a slip of the loop body: every word closes the chunk before it
ChunkStepAlwaysCloses(st, word, word_length, budget) ==
    [chunks |-> Append(st.chunks, st.current_chunk),
     current_chunk |-> <<word>>,
     current_length |-> word_length]

\* one iteration of the loop over the words
ChunkStep(st, word, word_length, budget) ==
    IF st.current_length + word_length > budget
    THEN [chunks |-> Append(st.chunks, st.current_chunk),
          current_chunk |-> <<word>>,
          current_length |-> word_length]
    ELSE [chunks |-> st.chunks,
          current_chunk |-> Append(st.current_chunk, word),
          current_length |-> st.current_length + word_length + 1]

\* the loop over words[i..], lens[i] being len(words[i])
RECURSIVE ChunkLoop(_, _, _, _, _)
ChunkLoop(words, lens, i, st, budget) ==
    IF i > Len(words) THEN st
    ELSE ChunkLoop(words, lens, i + 1, ChunkStep(st, words[i], lens[i], budget), budget)

\* the word lists of the chunks returned for a list of words
ChunkWords(words, lens, max_size) ==
    LET st == ChunkLoop(words, lens, 1, ChunkStart, max_size * 4)
    IN  IF st.current_chunk # <<>> THEN Append(st.chunks, st.current_chunk)
        ELSE st.chunks

chunk_text(t, max_size) ==
    LET words == Split(t)
        groups == ChunkWords(words, [i \in 1..Len(words) |-> Len(words[i])], max_size)
    IN  [k \in 1..Len(groups) |-> Join(groups[k])]

-----------------------------------------------------------------------------
(* count_words_in_xml and the vector store it writes to *)

\* Python's None where a string may stand (an absent N attribute)
NoneValue == "<None>"

\* str(x)
Str(x) == IF x = NoneValue THEN "None" ELSE x

\* chapters whose cleaned text is longer than this are stored
MinStoredLength == 100
\* chapters of titles numbered up to this are stored
LastStoredTitle == 10
\* chunk_text's default max_chunk_size
DefaultMaxChunkSize == 6000

\* A parsed document is the list of its elements in document order, the root
\* first (depth 0); an element's descendants are the elements that follow it
\* with a greater depth, up to the next element that is not deeper. An
\* element's words are the words of its own text nodes, each word given by
\* its length in characters.
IsChapter(e) == e.tag = "DIV3" /\ e.TYPE = "CHAPTER"

\* root.xpath('//DIV3[@TYPE="CHAPTER"]'): the positions of the chapter elements
RECURSIVE ChaptersFrom(_, _)
ChaptersFrom(elems, i) ==
    IF i > Len(elems) THEN <<>>
    ELSE IF IsChapter(elems[i]) THEN <<i>> \o ChaptersFrom(elems, i + 1)
    ELSE ChaptersFrom(elems, i + 1)

\* the words of the elements j.. that are deeper than depth d, in order
RECURSIVE DescendantWords(_, _, _)
DescendantWords(elems, j, d) ==
    IF j > Len(elems) \/ elems[j].depth <= d THEN <<>>
    ELSE elems[j].words \o DescendantWords(elems, j + 1, d)

\* ' '.join(element.xpath('.//text()')).strip().split()
TextWords(elems, i) == elems[i].words \o DescendantWords(elems, i + 1, elems[i].depth)

RECURSIVE SumOf(_)
SumOf(lens) == IF lens = <<>> THEN 0 ELSE lens[1] + SumOf(Tail(lens))

\* len(' '.join(words))
JoinedLength(lens) == IF lens = <<>> THEN 0 ELSE SumOf(lens) + Len(lens) - 1

\* a dict, as the list of its items in insertion order
DictKeys(d) == {d[i].key : i \in DOMAIN d}

\* d[k]
DictGet(d, k) == d[CHOOSE i \in DOMAIN d : d[i].key = k].value

\* d[k] = v
DictSet(d, k, v) ==
    IF k \in DictKeys(d)
    THEN [i \in DOMAIN d |-> IF d[i].key = k THEN [key |-> k, value |-> v] ELSE d[i]]
    ELSE Append(d, [key |-> k, value |-> v])

\* the ids held by a collection (the list of its documents in insertion order)
Ids(coll) == {coll[i].id : i \in DOMAIN coll}

\* collection.add of one document. It raises when the store fails (raises);
\* an id the collection already holds is not stored again, and the call
\* raises or returns, as the installed chromadb does (dupRaises).
CollectionAdd(coll, doc, raises, dupRaises) ==
    IF raises THEN [coll |-> coll, raised |-> TRUE]
    ELSE IF doc.id \in Ids(coll) THEN [coll |-> coll, raised |-> dupRaises]
    ELSE [coll |-> Append(coll, doc), raised |-> FALSE]

\* the metadata and the id of chunk i of n
ChunkMetadata(title_number, chapter_num, word_count, i, n) ==
    LET base_metadata == [title |-> ToString(title_number), chapter |-> Str(chapter_num),
                          word_count |-> word_count, type |-> "chapter_text"]
    IN  IF n > 1
        THEN [title |-> base_metadata.title, chapter |-> base_metadata.chapter,
              word_count |-> word_count, type |-> base_metadata.type,
              chunk |-> i, total_chunks |-> n]
        ELSE base_metadata

DocId(title_number, chapter_num, i, n) ==
    LET doc_id == "title_" \o ToString(title_number) \o "_chapter_" \o Str(chapter_num)
    IN  IF n > 1 THEN doc_id \o "_chunk_" \o ToString(i) ELSE doc_id

\* the loop over text_chunks[i..]; a raising add leaves the loop for the
\* except clause. The store fails the add calls whose ordinal among the add
\* calls of this count_words_in_xml is in env.failing.
RECURSIVE AddChunks(_, _, _, _, _, _)
AddChunks(st, env, chapter_num, word_count, text_chunks, i) ==
    IF i > Len(text_chunks) THEN st
    ELSE LET doc == [id |-> DocId(env.title_number, chapter_num, i, Len(text_chunks)),
                     document |-> text_chunks[i],
                     metadata |-> ChunkMetadata(env.title_number, chapter_num, word_count,
                                                i, Len(text_chunks))]
             r == CollectionAdd(st.coll, doc, (Len(st.calls) + 1) \in env.failing,
                                env.dupRaises)
             after == [counts |-> st.counts, coll |-> r.coll, calls |-> Append(st.calls, doc),
                       raised |-> Append(st.raised, r.raised)]
         IN  IF r.raised THEN after
             ELSE AddChunks(after, env, chapter_num, word_count, text_chunks, i + 1)

\* len(cleaned_text) > 100
LongEnough(words) == JoinedLength(words) > MinStoredLength

\* the body of the chapter loop after the count is stored: the chapter's text
\* goes to the collection for the first titles only, if it is long enough
StoreChapter(st, env, chapter_num, words) ==
    IF env.title_number # 0 /\ env.title_number <= LastStoredTitle
    THEN IF LongEnough(words)
         THEN AddChunks(st, env, chapter_num, Len(words),
                        ChunkWords(words, words, DefaultMaxChunkSize), 1)
         ELSE st
    ELSE st

\* the loop over chapters[pos..]
RECURSIVE ChapterLoop(_, _, _, _, _)
ChapterLoop(st, env, elems, chapters, pos) ==
    IF pos > Len(chapters) THEN st
    ELSE LET chapter_num == elems[chapters[pos]].N
             words == TextWords(elems, chapters[pos])
             counted == [counts |-> DictSet(st.counts, chapter_num, Len(words)),
                         coll |-> st.coll, calls |-> st.calls, raised |-> st.raised]
         IN  ChapterLoop(StoreChapter(counted, env, chapter_num, words),
                         env, elems, chapters, pos + 1)

\* count_words_in_xml(xml_content, title_number) on collection coll: the
\* mapping returned, the collection afterwards, the add calls made, which of
\* them raised, and whether st.error was called. env holds title_number and what the store
\* does with the adds of this call.
count_words_in_xml(xml, env, coll) ==
    IF ~xml.present
    THEN [counts |-> <<>>, coll |-> coll, calls |-> <<>>, raised |-> <<>>, error |-> FALSE]
    ELSE IF ~xml.wellformed
    THEN [counts |-> <<>>, coll |-> coll, calls |-> <<>>, raised |-> <<>>, error |-> TRUE]
    ELSE LET st == ChapterLoop([counts |-> <<>>, coll |-> coll, calls |-> <<>>,
                                raised |-> <<>>],
                               env, xml.elems, ChaptersFrom(xml.elems, 1), 1)
         IN  [counts |-> DictSet(st.counts, "total", Len(TextWords(xml.elems, 1))),
              coll |-> st.coll, calls |-> st.calls, raised |-> st.raised, error |-> FALSE]

-----------------------------------------------------------------------------
(* The documents the upstream API may return for a title *)

\* no response body (fetch_xml_content returned None) and a body that does not parse
NoXml == [present |-> FALSE, wellformed |-> FALSE, elems |-> <<>>]
MalformedXml == [present |-> TRUE, wellformed |-> FALSE, elems |-> <<>>]

\* N attributes of chapter elements: absent, a chapter number, and the name
\* of the synthetic key
ChapterNs == {NoneValue, "I", "total"}

\* chapter texts, as word lengths: empty; 100 characters; 101 characters in
\* two words; more than one chunk of 24000 characters
ChapterTexts == {<<>>, <<100>>, <<50, 50>>, <<24000, 1>>}
PartTexts == {<<60>>}

\* the eCFR hierarchy: DIV1 is the title, DIV3 a chapter, DIV5 a part
RootElement == [tag |-> "DIV1", TYPE |-> "TITLE", N |-> "1", words |-> <<2>>, depth |-> 0]

ElementsAt(d) ==
    {[tag |-> "DIV3", TYPE |-> "CHAPTER", N |-> n, words |-> w, depth |-> d] :
        n \in ChapterNs, w \in ChapterTexts}
    \cup {[tag |-> "DIV5", TYPE |-> "PART", N |-> "1", words |-> w, depth |-> d] :
        w \in PartTexts}

\* the element lists of length n + 1 that start with the root: an element is
\* a child of the root or of the element before it
RECURSIVE ElemLists(_)
ElemLists(n) ==
    IF n = 0 THEN {<<RootElement>>}
    ELSE UNION {{Append(es, e) : e \in ElementsAt(1) \cup
                    (IF Len(es) > 1 /\ es[Len(es)].depth = 1 THEN ElementsAt(2) ELSE {})} :
                es \in ElemLists(n - 1)}

XmlDocs ==
    {[present |-> TRUE, wellformed |-> TRUE, elems |-> es] :
        es \in UNION {ElemLists(n) : n \in 0..MaxElems}}

\* title numbers: the last that is stored and the first that is not
TitleNumbers == {10, 11}

\* the add calls of count_words_in_xml(xml, title_number) that the store may
\* fail, by their ordinal: as many as the call makes when none fails
AddPoints(xml, title_number) ==
    1..Len(count_words_in_xml(xml, [title_number |-> title_number, failing |-> {},
                                    dupRaises |-> FALSE], <<>>).calls)

\* the subsets of S of at most k elements
RECURSIVE SetsUpTo(_, _)
SetsUpTo(S, k) ==
    IF k = 0 THEN {{}}
    ELSE LET smaller == SetsUpTo(S, k - 1)
         IN  smaller \cup {f \cup {p} : f \in smaller, p \in S}

FailingSets(xml, title_number) == SetsUpTo(AddPoints(xml, title_number), MaxAddFailures)

-----------------------------------------------------------------------------
(* SQL text and the DuckDB connection *)

\* Python's None where a text (a sequence of characters) may stand
NoneText == <<"<None>">>

\* (x or '')
OrEmpty(x) == IF x = NoneText THEN <<>> ELSE x

\* s.replace("'", "''")
RECURSIVE Escape(_)
Escape(s) ==
    IF s = <<>> THEN <<>>
    ELSE IF s[1] = "'" THEN <<"'", "'">> \o Escape(Tail(s))
    ELSE <<s[1]>> \o Escape(Tail(s))

\* what the SQL parser reads from the characters interpolated between two
\* quotes: '' stands for one quote, and a lone quote ends the literal early,
\* which leaves a statement that does not parse
RECURSIVE SqlLiteralFrom(_, _, _)
SqlLiteralFrom(s, i, acc) ==
    IF i > Len(s) THEN [ok |-> TRUE, value |-> acc]
    ELSE IF s[i] # "'" THEN SqlLiteralFrom(s, i + 1, Append(acc, s[i]))
    ELSE IF i < Len(s) /\ s[i + 1] = "'" THEN SqlLiteralFrom(s, i + 2, Append(acc, "'"))
    ELSE [ok |-> FALSE, value |-> acc]

SqlLiteral(s) == SqlLiteralFrom(s, 1, <<>>)

TableNames == {"titles", "word_counts", "agencies", "agency_cfr_references",
               "content_versions"}

\* the tables initialize_database creates
EmptyTables == [t \in TableNames |-> <<>>]

\* BEGIN TRANSACTION
Begin(c) == [tables |-> c.tables, snapshot |-> c.tables, in_transaction |-> TRUE]

\* a slip: the titles are not deleted
DeleteAllButTitles(c) ==
    [c EXCEPT !.tables = [t \in TableNames |-> IF t = "titles" THEN c.tables[t] ELSE <<>>]]

\* the five DELETE FROM statements
DeleteAll(c) == [c EXCEPT !.tables = EmptyTables]

\* an INSERT of one row
Insert(c, table, row) == [c EXCEPT !.tables[table] = Append(@, row)]

\* a slip: the transaction is closed with its rows kept
RollbackKeepsRows(c) ==
    [tables |-> c.tables, snapshot |-> c.tables, in_transaction |-> FALSE]

\* ROLLBACK, with a transaction open
Rollback(c) == [tables |-> c.snapshot, snapshot |-> c.snapshot, in_transaction |-> FALSE]

\* COMMIT
Commit(c) == [tables |-> c.tables, snapshot |-> c.tables, in_transaction |-> FALSE]

\* a COMMIT that fails: the rows of the transaction are not stored; the
\* transaction is closed or left for a ROLLBACK (open)
CommitFailed(c, open) ==
    IF open THEN c
    ELSE [tables |-> c.snapshot, snapshot |-> c.snapshot, in_transaction |-> FALSE]

-----------------------------------------------------------------------------
(* The rows load_data inserts *)

\* the string-built INSERT INTO agencies: the row the statement stores, and
\* whether the statement parses
AgencyInsert(agency) ==
    LET name == SqlLiteral(Escape(agency.name))
        short_name == SqlLiteral(Escape(OrEmpty(agency.short_name)))
        display_name == SqlLiteral(Escape(OrEmpty(agency.display_name)))
        sortable_name == SqlLiteral(Escape(OrEmpty(agency.sortable_name)))
        slug == SqlLiteral(Escape(OrEmpty(agency.slug)))
    IN  [ok |-> name.ok /\ short_name.ok /\ display_name.ok /\ sortable_name.ok /\ slug.ok,
         row |-> [name |-> name.value, short_name |-> short_name.value,
                  display_name |-> display_name.value,
                  sortable_name |-> sortable_name.value, slug |-> slug.value]]

\* the string-built INSERT INTO agency_cfr_references of one reference
ReferenceInsert(agency, ref) ==
    LET name == SqlLiteral(Escape(agency.name))
        chapter == SqlLiteral(Escape(OrEmpty(ref.chapter)))
    IN  [ok |-> name.ok /\ chapter.ok,
         row |-> [agency_name |-> name.value, title |-> ref.title, chapter |-> chapter.value]]

\* the loop over agency.get('cfr_references', [])[j..]; int(ref.get('title'))
\* raises for a reference without a title
RECURSIVE InsertReferences(_, _, _)
InsertReferences(c, agency, j) ==
    IF j > Len(agency.cfr_references) THEN [con |-> c, raised |-> FALSE]
    ELSE LET ref == agency.cfr_references[j]
         IN  IF "title" \notin DOMAIN ref THEN [con |-> c, raised |-> TRUE]
             ELSE LET ins == ReferenceInsert(agency, ref)
                  IN  IF ~ins.ok THEN [con |-> c, raised |-> TRUE]
                      ELSE InsertReferences(Insert(c, "agency_cfr_references", ins.row),
                                            agency, j + 1)

\* the loop over agencies[i..]
RECURSIVE InsertAgencies(_, _, _)
InsertAgencies(c, list, i) ==
    IF i > Len(list) THEN [con |-> c, raised |-> FALSE]
    ELSE LET ins == AgencyInsert(list[i])
         IN  IF ~ins.ok THEN [con |-> c, raised |-> TRUE]
             ELSE LET r == InsertReferences(Insert(c, "agencies", ins.row), list[i], 1)
                  IN  IF r.raised THEN r ELSE InsertAgencies(r.con, list, i + 1)

\* the row of INSERT INTO titles
TitleRow(title) ==
    [number |-> title.number, name |-> title.name,
     latest_amended_on |-> title.latest_amended_on,
     latest_issue_date |-> title.latest_issue_date,
     up_to_date_as_of |-> title.up_to_date_as_of, reserved |-> title.reserved]

\* SQL NULL
Null == "<NULL>"

\* a slip: the total is stored like a chapter
WordCountRowNeverNull(title, key, word_count) ==
    [title |-> title.number, part |-> Null, date |-> title.latest_issue_date,
     word_count |-> word_count, chapter |-> "Chapter " \o Str(key)]

\* the row of INSERT INTO word_counts for one item of chapter_word_counts
WordCountRow(title, key, word_count) ==
    [title |-> title.number, part |-> Null, date |-> title.latest_issue_date,
     word_count |-> word_count,
     chapter |-> IF key # "total" THEN "Chapter " \o Str(key) ELSE Null]

\* the loop over chapter_word_counts.items()[k..]
RECURSIVE InsertWordCounts(_, _, _, _)
InsertWordCounts(c, title, counts, k) ==
    IF k > Len(counts) THEN c
    ELSE InsertWordCounts(
             Insert(c, "word_counts", WordCountRow(title, counts[k].key, counts[k].value)),
             title, counts, k + 1)

\* the row of INSERT INTO content_versions for one version entry
VersionRow(title, version) ==
    [title |-> title.number, part |-> version.part, identifier |-> version.identifier,
     name |-> Escape(version.name), date |-> version.date,
     amendment_date |-> version.amendment_date, issue_date |-> version.issue_date,
     substantive |-> version.substantive, removed |-> version.removed,
     subpart |-> Escape(OrEmpty(version.subpart)), type |-> version.type]

\* the loop over version_data['content_versions'][k..]
RECURSIVE InsertVersions(_, _, _, _)
InsertVersions(c, title, versions, k) ==
    IF k > Len(versions) THEN c
    ELSE InsertVersions(Insert(c, "content_versions", VersionRow(title, versions[k])),
                        title, versions, k + 1)

-----------------------------------------------------------------------------
(* What the upstream API may answer during a load *)

Agency1 ==
    [name |-> <<"E", "P", "A">>, short_name |-> <<"E">>, display_name |-> <<"E", "P", "A">>,
     sortable_name |-> <<"E", "P", "A">>, slug |-> <<"e">>,
     cfr_references |-> <<[title |-> 1, chapter |-> <<"I">>]>>]
Agency2 ==
    [name |-> <<"O", "'", "B">>, short_name |-> NoneText, display_name |-> <<"O", "'", "B">>,
     sortable_name |-> <<"B">>, slug |-> <<"o">>,
     cfr_references |-> <<[title |-> 11, chapter |-> <<"I">>],
                          [title |-> 40, chapter |-> NoneText]>>]
\* an agency with a reference that has no title
Agency3 ==
    [name |-> <<"X">>, short_name |-> <<"X">>, display_name |-> <<"X">>,
     sortable_name |-> <<"X">>, slug |-> <<"x">>,
     cfr_references |-> <<[chapter |-> <<"I">>]>>]

\* a fetch returns None (none) or the list of the response
NoData == [none |-> TRUE, items |-> <<>>]
Data(items) == [none |-> FALSE, items |-> items]

AgencyResponses ==
    {NoData, Data(<<>>), Data(<<Agency2, Agency1>>), Data(<<Agency1, Agency3>>)}

TitleRecord(n, d) ==
    [number |-> n, name |-> "Title", latest_amended_on |-> d, latest_issue_date |-> d,
     up_to_date_as_of |-> d, reserved |-> FALSE]

\* the titles endpoint lists the titles in this order; a response holds the
\* first of them
Catalogue == <<TitleRecord(1, "2024-01-01"), TitleRecord(11, "2024-02-02"),
               TitleRecord(12, "2024-03-03")>>

TitleResponses ==
    {NoData, Data(<<>>)} \cup {Data(SubSeq(Catalogue, 1, n)) : n \in 1..MaxTitles}

\* a title's document: one chapter of 101 characters
ChapterXml ==
    [present |-> TRUE, wellformed |-> TRUE,
     elems |-> <<RootElement,
                 [tag |-> "DIV3", TYPE |-> "CHAPTER", N |-> "I", words |-> <<50, 50>>,
                  depth |-> 1]>>]

XmlResponses == {NoXml, MalformedXml, ChapterXml}

Version1 ==
    [part |-> "1", identifier |-> "1.1", name |-> <<"P", "'", "s">>, date |-> "2020-01-01",
     amendment_date |-> "2020-01-01", issue_date |-> "2020-01-01", substantive |-> TRUE,
     removed |-> FALSE, subpart |-> NoneText, type |-> "section"]

VersionResponses == {NoData, Data(<<Version1>>)}

-----------------------------------------------------------------------------
(* The similarity scan of src/pages/3_Doc_Similarity.py *)

\* a distance of 1.0, the distances being counted in ten-thousandths
DistanceUnit == 10000
\* the most neighbours a query asks for
MaxQueryResults == 10
\* the number of pairs shown
MaxTopPairs == 5

\* similarity = (2 - distance) / 2, as a number of halves of a ten-thousandth
Similarity(distance) == 2 * DistanceUnit - distance

\* min(10, len(all_docs['ids']) - 1)
NResults(docs) ==
    IF MaxQueryResults < Len(docs) - 1 THEN MaxQueryResults ELSE Len(docs) - 1

\* the k nearest of the documents in remaining, nearest first, row[j] being
\* the distance of document j from the probe; documents at the same distance
\* come in any order
RECURSIVE NearestFrom(_, _, _, _)
NearestFrom(row, remaining, k, acc) ==
    IF k = 0 \/ remaining = {} THEN {acc}
    ELSE LET nearest == {j \in remaining : \A m \in remaining : row[j] <= row[m]}
         IN  UNION {NearestFrom(row, remaining \ {j}, k - 1,
                                Append(acc, [index |-> j, distance |-> row[j]])) :
                    j \in nearest}

\* collection.query(query_texts=[documents[i]], n_results=n_results): the
\* probe is embedded like the stored document i, which is among the documents
\* searched
Query(coll, dist, i, n_results) == NearestFrom(dist[i], DOMAIN coll, n_results, <<>>)

\* f"{meta['title']}_{meta['chapter']}"
KeyString(meta) == meta.title \o "_" \o meta.chapter

\* the key strings of the model, in the order of Python's string comparison
KeyStringsInOrder == <<"1_I", "1_II", "1_III", "2_I", "2_II", "2_III">>

StringRank(str) == CHOOSE k \in DOMAIN KeyStringsInOrder : KeyStringsInOrder[k] = str

\* a slip: the pair key keeps the order of the query
PairKeyUnsorted(doc1_meta, doc2_meta) == <<KeyString(doc1_meta), KeyString(doc2_meta)>>

\* tuple(sorted([key1, key2]))
PairKey(doc1_meta, doc2_meta) ==
    LET key1 == KeyString(doc1_meta)
        key2 == KeyString(doc2_meta)
    IN  IF StringRank(key1) <= StringRank(key2) THEN <<key1, key2>> ELSE <<key2, key1>>

\* a slip: no pair is discarded for its titles
SameTitleNever(doc1_meta, doc2_meta) == FALSE

\* doc1_meta['title'] == doc2_meta['title']
SameTitle(doc1_meta, doc2_meta) == doc1_meta.title = doc2_meta.title

\* the loop over the results[j..] of the query for document i
RECURSIVE ProcessResults(_, _, _, _, _)
ProcessResults(st, docs, i, results, j) ==
    IF j > Len(results) THEN st
    ELSE LET doc1_meta == docs[i].metadata
             doc2 == docs[results[j].index]
             pair_key == PairKey(doc1_meta, doc2.metadata)
         IN  IF SameTitle(doc1_meta, doc2.metadata)
             THEN ProcessResults(st, docs, i, results, j + 1)
             ELSE IF pair_key \in st.seen_pairs
             THEN ProcessResults(st, docs, i, results, j + 1)
             ELSE ProcessResults(
                      [seen_pairs |-> st.seen_pairs \cup {pair_key},
                       similarity_pairs |->
                           Append(st.similarity_pairs,
                                  [pair_id |-> pair_key,
                                   similarity |-> Similarity(results[j].distance),
                                   doc1_meta |-> doc1_meta,
                                   doc2_meta |-> doc2.metadata,
                                   doc1_content |-> docs[i].document,
                                   doc2_content |-> doc2.document])],
                      docs, i, results, j + 1)

\* pairs.sort(key=lambda x: x['similarity'], reverse=True): the pair is put
\* behind the pairs of the sorted list that are at least as similar
RECURSIVE InsertSorted(_, _)
InsertSorted(sorted, pair) ==
    IF sorted = <<>> THEN <<pair>>
    ELSE IF sorted[1].similarity >= pair.similarity
         THEN <<sorted[1]>> \o InsertSorted(Tail(sorted), pair)
         ELSE <<pair>> \o sorted

RECURSIVE SortBySimilarity(_, _)
SortBySimilarity(pairs, k) ==
    IF k = 0 THEN <<>>
    ELSE InsertSorted(SortBySimilarity(pairs, k - 1), pairs[k])

\* similarity_pairs[:5]
TopPairs(pairs) ==
    IF Len(pairs) <= MaxTopPairs THEN pairs ELSE SubSeq(pairs, 1, MaxTopPairs)

ScanIdle ==
    /\ distances = <<>>
    /\ spc = "idle" /\ all_docs = <<>> /\ similarity_pairs = <<>> /\ seen_pairs = {}
    /\ top_pairs = <<>> /\ doc_index = 0 /\ query_log = <<>>

-----------------------------------------------------------------------------
(* load_data, step by step *)

\* a slip: the documents of the earlier load are kept
CollectionKept(coll) == coll

\* collection.delete(ids=all_docs['ids'])
CollectionCleared(coll) == <<>>

NoFetches == [xml |-> <<>>, versions |-> <<>>]

LoadIdle ==
    /\ con = [tables |-> EmptyTables, snapshot |-> EmptyTables, in_transaction |-> FALSE]
    /\ pc = "idle"
    /\ agencies = <<>> /\ titles = <<>> /\ done = 0 /\ fetched = NoFetches
    /\ pre = EmptyTables /\ pre_collection = <<>>
    /\ failed_at = "" /\ committed = FALSE /\ rolled_back = FALSE
    /\ reported = FALSE /\ escaped = FALSE

Init ==
    /\ LoadIdle
    /\ collection = <<>> /\ add_calls = <<>> /\ add_raised = <<>>
    /\ text = <<>> /\ max_chunk_size = 0 /\ chunks = <<>> /\ cpc = "idle"
    /\ arg_xml = NoXml /\ arg_title = 0 /\ chapter_word_counts = <<>> /\ xpc = "idle"
    /\ ScanIdle

\* an exception is raised at step: control goes to the except clause
Raise(step) ==
    /\ failed_at' = step
    /\ pc' = "except"

\* the button is pressed: initialize_database, then load_data is entered
LoadData ==
    /\ pc = "idle"
    /\ pc' = "clear"
    /\ agencies' = <<>> /\ titles' = <<>> /\ done' = 0 /\ fetched' = NoFetches
    /\ pre' = con.tables /\ pre_collection' = collection
    /\ failed_at' = "" /\ committed' = FALSE /\ rolled_back' = FALSE
    /\ reported' = FALSE /\ escaped' = FALSE
    /\ UNCHANGED <<con, storeVars, chunkVars, xmlVars, scanVars>>

\* the collection is emptied
ClearCollection ==
    /\ pc = "clear"
    /\ collection' = CollectionCleared(collection)
    /\ add_calls' = <<>>
    /\ add_raised' = <<>>
    /\ pc' = "begin"
    /\ UNCHANGED <<con, agencies, titles, done, fetched, runVars, chunkVars, xmlVars, scanVars>>

\* get_or_create_collection, collection.get or collection.delete raises
ClearRaises ==
    /\ pc = "clear"
    /\ Raise("clear")
    /\ UNCHANGED <<con, agencies, titles, done, fetched, storeVars, chunkVars, xmlVars, scanVars,
                   pre, pre_collection, committed, rolled_back, reported, escaped>>

\* BEGIN TRANSACTION and the five DELETE FROM
BeginAndDelete ==
    /\ pc = "begin"
    /\ con' = DeleteAll(Begin(con))
    /\ pc' = "agencies"
    /\ UNCHANGED <<agencies, titles, done, fetched, runVars, storeVars, chunkVars, xmlVars, scanVars>>

\* fetch_agencies returns: without data, rollback and return; with data, the
\* agencies and their references are inserted
FetchAgencies ==
    /\ pc = "agencies"
    /\ \E resp \in AgencyResponses :
         /\ agencies' = resp.items
         /\ IF resp.items = <<>>
            THEN /\ reported' = TRUE
                 /\ con' = Rollback(con)
                 /\ rolled_back' = TRUE
                 /\ failed_at' = "agencies empty"
                 /\ pc' = "idle"
            ELSE LET r == InsertAgencies(con, resp.items, 1)
                 IN  /\ con' = r.con
                     /\ IF r.raised THEN Raise("agencies insert")
                        ELSE pc' = "titles" /\ UNCHANGED failed_at
                     /\ UNCHANGED <<reported, rolled_back>>
    /\ UNCHANGED <<titles, done, fetched, pre, pre_collection, committed, escaped,
                   storeVars, chunkVars, xmlVars, scanVars>>

FetchAgenciesRaises ==
    /\ pc = "agencies"
    /\ Raise("agencies fetch")
    /\ UNCHANGED <<con, agencies, titles, done, fetched, storeVars, chunkVars, xmlVars, scanVars,
                   pre, pre_collection, committed, rolled_back, reported, escaped>>

\* fetch_titles returns: without data, rollback and return
FetchTitles ==
    /\ pc = "titles"
    /\ \E resp \in TitleResponses :
         /\ titles' = resp.items
         /\ IF resp.items = <<>>
            THEN /\ reported' = TRUE
                 /\ con' = Rollback(con)
                 /\ rolled_back' = TRUE
                 /\ failed_at' = "titles empty"
                 /\ pc' = "idle"
            ELSE /\ pc' = "title"
                 /\ UNCHANGED <<con, reported, rolled_back, failed_at>>
    /\ UNCHANGED <<agencies, done, fetched, pre, pre_collection, committed, escaped,
                   storeVars, chunkVars, xmlVars, scanVars>>

FetchTitlesRaises ==
    /\ pc = "titles"
    /\ Raise("titles fetch")
    /\ UNCHANGED <<con, agencies, titles, done, fetched, storeVars, chunkVars, xmlVars, scanVars,
                   pre, pre_collection, committed, rolled_back, reported, escaped>>

\* the first half of the loop body for the next title: its row is inserted,
\* its document fetched, its words counted and its chapters stored, and the
\* word counts inserted
ProcessTitle ==
    /\ pc = "title"
    /\ LET title == titles[done + 1]
       IN  \E xml \in XmlResponses :
           \E failing \in FailingSets(xml, title.number), dupRaises \in BOOLEAN :
             LET r == count_words_in_xml(xml,
                          [title_number |-> title.number, failing |-> failing,
                           dupRaises |-> dupRaises], collection)
             IN  /\ con' = InsertWordCounts(Insert(con, "titles", TitleRow(title)),
                                            title, r.counts, 1)
                 /\ collection' = r.coll
                 /\ add_calls' = add_calls \o r.calls
                 /\ add_raised' = add_raised \o r.raised
                 /\ fetched' = [fetched EXCEPT !.xml = Append(@, xml)]
    /\ pc' = "versions"
    /\ UNCHANGED <<agencies, titles, done, runVars, chunkVars, xmlVars, scanVars>>

\* the title's row is inserted and fetch_xml_content raises
FetchXmlRaises ==
    /\ pc = "title"
    /\ con' = Insert(con, "titles", TitleRow(titles[done + 1]))
    /\ Raise("xml fetch")
    /\ UNCHANGED <<agencies, titles, done, fetched, storeVars, chunkVars, xmlVars, scanVars,
                   pre, pre_collection, committed, rolled_back, reported, escaped>>

\* the second half of the loop body: the title's versions are fetched and inserted
StoreVersions ==
    /\ pc = "versions"
    /\ \E resp \in VersionResponses :
         /\ con' = InsertVersions(con, titles[done + 1], resp.items, 1)
         /\ fetched' = [fetched EXCEPT !.versions = Append(@, resp.items)]
    /\ done' = done + 1
    /\ pc' = IF done + 1 = Len(titles) THEN "commit" ELSE "title"
    /\ UNCHANGED <<agencies, titles, runVars, storeVars, chunkVars, xmlVars, scanVars>>

FetchVersionsRaises ==
    /\ pc = "versions"
    /\ Raise("versions fetch")
    /\ UNCHANGED <<con, agencies, titles, done, fetched, storeVars, chunkVars, xmlVars, scanVars,
                   pre, pre_collection, committed, rolled_back, reported, escaped>>

CommitTransaction ==
    /\ pc = "commit"
    /\ con' = Commit(con)
    /\ committed' = TRUE
    /\ pc' = "count"
    /\ UNCHANGED <<agencies, titles, done, fetched, storeVars, chunkVars, xmlVars, scanVars,
                   pre, pre_collection, failed_at, rolled_back, reported, escaped>>

\* COMMIT raises
CommitRaises ==
    /\ pc = "commit"
    /\ \E open \in BOOLEAN : con' = CommitFailed(con, open)
    /\ Raise("commit")
    /\ UNCHANGED <<agencies, titles, done, fetched, storeVars, chunkVars, xmlVars, scanVars,
                   pre, pre_collection, committed, rolled_back, reported, escaped>>

\* the final count check: load_data returns
CountCheck ==
    /\ pc = "count"
    /\ pc' = "idle"
    /\ UNCHANGED <<con, agencies, titles, done, fetched, runVars, storeVars, chunkVars,
                   xmlVars, scanVars>>

\* a SELECT COUNT(*) or an st.write of the final count check raises
CountCheckRaises ==
    /\ pc = "count"
    /\ Raise("count")
    /\ UNCHANGED <<con, agencies, titles, done, fetched, storeVars, chunkVars, xmlVars, scanVars,
                   pre, pre_collection, committed, rolled_back, reported, escaped>>

\* the except clause: ROLLBACK, then st.error. With no transaction open,
\* ROLLBACK itself raises and the exception leaves load_data before st.error.
Except ==
    /\ pc = "except"
    /\ IF con.in_transaction
       THEN /\ con' = Rollback(con)
            /\ rolled_back' = TRUE
            /\ reported' = TRUE
            /\ UNCHANGED escaped
       ELSE /\ escaped' = TRUE
            /\ UNCHANGED <<con, rolled_back, reported>>
    /\ pc' = "idle"
    /\ UNCHANGED <<agencies, titles, done, fetched, storeVars, chunkVars, xmlVars, scanVars,
                   pre, pre_collection, failed_at, committed>>

Next ==
    \/ LoadData
    \/ ClearCollection
    \/ ClearRaises
    \/ BeginAndDelete
    \/ FetchAgencies
    \/ FetchAgenciesRaises
    \/ FetchTitles
    \/ FetchTitlesRaises
    \/ ProcessTitle
    \/ FetchXmlRaises
    \/ StoreVersions
    \/ FetchVersionsRaises
    \/ CommitTransaction
    \/ CommitRaises
    \/ CountCheck
    \/ CountCheckRaises
    \/ Except

Spec == Init /\ [][Next]_vars

-----------------------------------------------------------------------------
(* The Chunker on its own: any text, any max_chunk_size *)

ChunkInit ==
    /\ text \in Texts
    /\ max_chunk_size \in 0..MaxChunkSize
    /\ chunks = <<>>
    /\ cpc = "call"
    /\ arg_xml = NoXml /\ arg_title = 0 /\ chapter_word_counts = <<>>
    /\ xpc = "idle" /\ collection = <<>> /\ add_calls = <<>> /\ add_raised = <<>>
    /\ LoadIdle
    /\ ScanIdle

ChunkText ==
    /\ cpc = "call"
    /\ chunks' = chunk_text(text, max_chunk_size)
    /\ cpc' = "returned"
    /\ UNCHANGED <<text, max_chunk_size, xmlVars, scanVars, storeVars, loadVars, runVars>>

ChunkNext == ChunkText

ChunkSpec == ChunkInit /\ [][ChunkNext]_vars

-----------------------------------------------------------------------------
(* The Extractor on its own: any document, any title, on a cleared collection *)

XmlInit ==
    /\ arg_xml \in XmlDocs \cup {NoXml, MalformedXml}
    /\ arg_title \in TitleNumbers
    /\ chapter_word_counts = <<>>
    /\ xpc = "call"
    /\ collection = <<>>
    /\ add_calls = <<>>
    /\ add_raised = <<>>
    /\ text = <<>> /\ max_chunk_size = 0 /\ chunks = <<>> /\ cpc = "idle"
    /\ LoadIdle
    /\ ScanIdle

CountWords ==
    /\ xpc = "call"
    /\ \E failing \in FailingSets(arg_xml, arg_title), dupRaises \in BOOLEAN :
         LET r == count_words_in_xml(arg_xml,
                      [title_number |-> arg_title, failing |-> failing,
                       dupRaises |-> dupRaises], collection)
         IN  /\ chapter_word_counts' = r.counts
             /\ collection' = r.coll
             /\ add_calls' = add_calls \o r.calls
             /\ add_raised' = add_raised \o r.raised
    /\ xpc' = "returned"
    /\ UNCHANGED <<arg_xml, arg_title, chunkVars, loadVars, runVars, scanVars>>

XmlNext == CountWords

XmlSpec == XmlInit /\ [][XmlNext]_vars

-----------------------------------------------------------------------------
(* The similarity scan on its own: any content of the vector store *)

\* a document as count_words_in_xml stores it: chunk i of the n chunks of a
\* chapter of two words
StoredDocument(title_number, chapter_num, i, n) ==
    [id |-> DocId(title_number, chapter_num, i, n),
     document |-> <<50, 50>>,
     metadata |-> ChunkMetadata(title_number, chapter_num, 2, i, n)]

\* two chunks of a chapter, another chapter of the same title, and a chapter
\* of another title
DocumentKinds ==
    {StoredDocument(1, "I", 1, 2), StoredDocument(1, "I", 2, 2),
     StoredDocument(1, "II", 1, 1), StoredDocument(2, "I", 1, 1)}

\* the lists of n different documents
RECURSIVE DocumentLists(_)
DocumentLists(n) ==
    IF n = 0 THEN {<<>>}
    ELSE UNION {{Append(docs, d) : d \in DocumentKinds \ Range(docs)} :
                docs \in DocumentLists(n - 1)}

\* a store whose embeddings lie on a line, at the given positions
LineStore(docs, positions) ==
    [docs |-> docs,
     distances |-> [i \in DOMAIN docs |-> [j \in DOMAIN docs |->
         IF positions[i] >= positions[j] THEN positions[i] - positions[j]
         ELSE positions[j] - positions[i]]]]

RECURSIVE PowerOfTwo(_)
PowerOfTwo(k) == IF k = 0 THEN 1 ELSE 2 * PowerOfTwo(k - 1)

\* positions on the line such that no two documents are equally far from a
\* third: 0, 0.1, 0.3, 0.7, ...
Positions == {(PowerOfTwo(k) - 1) * (DistanceUnit \div 10) : k \in 0..MaxDocs}

\* the placements of n documents at different positions
RECURSIVE Placements(_)
Placements(n) ==
    IF n = 0 THEN {<<>>}
    ELSE UNION {{Append(ps, q) : q \in Positions \ Range(ps)} : ps \in Placements(n - 1)}

\* the stores of up to MaxDocs documents with different embeddings
SmallStores ==
    UNION {{LineStore(docs, ps) : docs \in DocumentLists(n), ps \in Placements(n)} :
           n \in 0..MaxDocs}

\* the stores of two or three documents with the same embedding (the same
\* text): every document is equally far from every other
TwinStores ==
    {LineStore(docs, [k \in DOMAIN docs |-> 0]) :
        docs \in DocumentLists(2) \cup DocumentLists(3)}

\* three chapters of each of two titles, one of them in two chunks, the
\* titles alternating along the line
MixedStore ==
    LineStore(<<StoredDocument(1, "I", 1, 2), StoredDocument(2, "I", 1, 1),
                StoredDocument(1, "I", 2, 2), StoredDocument(2, "II", 1, 1),
                StoredDocument(1, "II", 1, 1), StoredDocument(2, "III", 1, 1),
                StoredDocument(1, "III", 1, 1)>>,
              [k \in 1..7 |-> 100 * PowerOfTwo(k - 1)])

\* two chapters of eleven chunks each, of two titles: the chunks of a
\* chapter lie close to each other and the two chapters far apart
ClusteredStore ==
    LineStore([k \in 1..22 |->
                  IF k <= 11 THEN StoredDocument(1, "I", k, 11)
                  ELSE StoredDocument(2, "I", k - 11, 11)],
              [k \in 1..22 |->
                  IF k <= 11 THEN PowerOfTwo(k - 1)
                  ELSE DistanceUnit + PowerOfTwo(k - 12)])

Stores == SmallStores \cup TwinStores \cup {MixedStore, ClusteredStore}

ScanInit ==
    /\ \E store \in Stores :
         /\ collection = store.docs
         /\ distances = store.distances
    /\ add_calls = <<>> /\ add_raised = <<>>
    /\ spc = "call" /\ all_docs = <<>> /\ similarity_pairs = <<>> /\ seen_pairs = {}
    /\ top_pairs = <<>> /\ doc_index = 0 /\ query_log = <<>>
    /\ text = <<>> /\ max_chunk_size = 0 /\ chunks = <<>> /\ cpc = "idle"
    /\ arg_xml = NoXml /\ arg_title = 0 /\ chapter_word_counts = <<>> /\ xpc = "idle"
    /\ LoadIdle

\* the button is pressed: the documents are read; without documents a
\* warning is shown
FindSimilar ==
    /\ spc = "call"
    /\ all_docs' = collection
    /\ spc' = IF collection = <<>> THEN "warned" ELSE "loop"
    /\ doc_index' = 1
    /\ UNCHANGED <<distances, similarity_pairs, seen_pairs, top_pairs, query_log,
                   chunkVars, xmlVars, storeVars, loadVars, runVars>>

\* get_or_create_collection or collection.get raises: the error is shown
GetRaises ==
    /\ spc = "call"
    /\ spc' = "error"
    /\ UNCHANGED <<distances, all_docs, similarity_pairs, seen_pairs, top_pairs, doc_index,
                   query_log, chunkVars, xmlVars, storeVars, loadVars, runVars>>

InLoop == spc = "loop" /\ doc_index <= Len(all_docs)

\* an iteration for a store of one document: no query is made
NoNeighbours ==
    /\ InLoop
    /\ NResults(all_docs) <= 0
    /\ doc_index' = doc_index + 1
    /\ query_log' = Append(query_log, <<>>)
    /\ UNCHANGED <<distances, spc, all_docs, similarity_pairs, seen_pairs, top_pairs,
                   chunkVars, xmlVars, storeVars, loadVars, runVars>>

\* an iteration: the store is queried with the document and the results are
\* processed
QueryDocument ==
    /\ InLoop
    /\ NResults(all_docs) > 0
    /\ \E results \in Query(collection, distances, doc_index, NResults(all_docs)) :
         LET st == ProcessResults([seen_pairs |-> seen_pairs,
                                   similarity_pairs |-> similarity_pairs],
                                  all_docs, doc_index, results, 1)
         IN  /\ similarity_pairs' = st.similarity_pairs
             /\ seen_pairs' = st.seen_pairs
             /\ query_log' = Append(query_log, results)
    /\ doc_index' = doc_index + 1
    /\ UNCHANGED <<distances, spc, all_docs, top_pairs,
                   chunkVars, xmlVars, storeVars, loadVars, runVars>>

\* the queries that raised so far
QueryFailures == Cardinality({k \in DOMAIN query_log : query_log[k] = <<>>})

\* an iteration whose query raises: the document is skipped
QueryRaises ==
    /\ InLoop
    /\ NResults(all_docs) > 0
    /\ QueryFailures < MaxQueryFailures
    /\ doc_index' = doc_index + 1
    /\ query_log' = Append(query_log, <<>>)
    /\ UNCHANGED <<distances, spc, all_docs, similarity_pairs, seen_pairs, top_pairs,
                   chunkVars, xmlVars, storeVars, loadVars, runVars>>

\* after the loop: the pairs are sorted and the first five shown
ShowTopPairs ==
    /\ spc = "loop"
    /\ doc_index > Len(all_docs)
    /\ similarity_pairs' = SortBySimilarity(similarity_pairs, Len(similarity_pairs))
    /\ top_pairs' = TopPairs(similarity_pairs')
    /\ spc' = "shown"
    /\ UNCHANGED <<distances, all_docs, seen_pairs, doc_index, query_log,
                   chunkVars, xmlVars, storeVars, loadVars, runVars>>

ScanNext ==
    \/ FindSimilar
    \/ GetRaises
    \/ NoNeighbours
    \/ QueryDocument
    \/ QueryRaises
    \/ ShowTopPairs

ScanSpec == ScanInit /\ [][ScanNext]_vars

-----------------------------------------------------------------------------
(* Properties of the Relational Loader, checked under Spec *)

Ended == pc = "idle"

\* the steps at which an exception was raised, and the early returns
ExceptionSteps ==
    {"clear", "agencies fetch", "agencies insert", "titles fetch", "xml fetch",
     "versions fetch", "commit", "count"}
EmptyFetches == {"agencies empty", "titles empty"}

\* the rows of a complete refresh from what this run fetched: the agencies,
\* then for each title its row, its word counts and its versions
RECURSIVE RefreshTitles(_, _)
RefreshTitles(c, i) ==
    IF i > Len(titles) THEN c
    ELSE LET counts == count_words_in_xml(fetched.xml[i],
                           [title_number |-> titles[i].number, failing |-> {},
                            dupRaises |-> FALSE], <<>>).counts
             withCounts == InsertWordCounts(Insert(c, "titles", TitleRow(titles[i])),
                                            titles[i], counts, 1)
         IN  RefreshTitles(InsertVersions(withCounts, titles[i], fetched.versions[i], 1),
                           i + 1)

RefreshTables ==
    LET empty == [tables |-> EmptyTables, snapshot |-> EmptyTables, in_transaction |-> TRUE]
    IN  RefreshTitles(InsertAgencies(empty, agencies, 1).con, 1).tables

\* C1: after each run of load_data, however it ended, the five tables hold
\* exactly the rows of that run's complete refresh or are as they were
\* before the run, never a mix.
C1_AllOrNothing ==
    Ended =>
        /\ ~con.in_transaction
        /\ IF committed THEN con.tables = RefreshTables ELSE con.tables = pre

\* C1's case: a run that failed with rows of the new load inserted, over the
\* rows of an earlier load
C1_Witness ==
    /\ Ended
    /\ failed_at = "versions fetch"
    /\ done = 1
    /\ pre # EmptyTables
    /\ con.tables = pre

\* C2: when fetch_agencies returns no data, or fetch_titles does after the
\* agencies were inserted, load_data rolls back and returns with every table
\* as it was before the call.
C2_EmptyFetchRollsBack ==
    (Ended /\ failed_at \in EmptyFetches) =>
        /\ rolled_back
        /\ ~committed
        /\ ~con.in_transaction
        /\ con.tables = pre

\* C2's case: an empty title fetch after agencies were inserted, over the
\* rows of an earlier load
C2_Witness ==
    /\ Ended
    /\ failed_at = "titles empty"
    /\ agencies # <<>>
    /\ pre # EmptyTables
    /\ pre.agencies # <<>>

\* C3: an exception raised at any point of load_data is followed by a
\* rollback and an error reported to the user.
C3_ExceptionRolledBackAndReported ==
    (Ended /\ failed_at \in ExceptionSteps) => (rolled_back /\ reported)

\* the rows of word_counts with a NULL chapter for title number n
NullChapterRows(n) ==
    {k \in DOMAIN con.tables.word_counts :
        /\ con.tables.word_counts[k].title = n
        /\ con.tables.word_counts[k].chapter = Null}

\* the title records of number n whose document was fetched and parsed
ParsedRecords(n) ==
    {i \in DOMAIN titles :
        /\ titles[i].number = n
        /\ fetched.xml[i].present
        /\ fetched.xml[i].wellformed}

\* C4 as stated: after a committed load titles has one row per title record
\* and word_counts exactly one NULL-chapter row for every title record,
\* whatever the XML fetch and the parse gave.
C4_OneTotalRowPerTitle ==
    (Ended /\ committed) =>
        /\ Len(con.tables.titles) = Len(titles)
        /\ \A i \in DOMAIN titles : Cardinality(NullChapterRows(titles[i].number)) = 1

\* C4 amended: after a committed load titles has one row per title record,
\* and word_counts holds, for each title number, one NULL-chapter row per
\* title record of that number whose XML was fetched and parsed, and none
\* for a record whose XML fetch returned nothing or whose XML did not parse.
C4_OneTotalRowPerParsedTitle ==
    (Ended /\ committed) =>
        /\ Len(con.tables.titles) = Len(titles)
        /\ \A i \in DOMAIN titles :
              Cardinality(NullChapterRows(titles[i].number))
                  = Cardinality(ParsedRecords(titles[i].number))

\* C4's case: a committed load of a title with a parsed document and of a
\* title without one
C4_Witness ==
    /\ Ended
    /\ committed
    /\ \E i \in DOMAIN titles : ParsedRecords(titles[i].number) # {}
    /\ \E i \in DOMAIN titles : ParsedRecords(titles[i].number) = {}

\* the failures after the clear of the collection and before a COMMIT is done
BeforeCommit == (EmptyFetches \cup ExceptionSteps) \ {"clear", "count"}

\* C5 as stated: a run that fails after the clear and before COMMIT ends
\* with no document in the vector store and the tables as before the load,
\* wherever it fails.
C5_FailedLoadLeavesStoreEmpty ==
    (Ended /\ failed_at \in BeforeCommit) =>
        /\ collection = <<>>
        /\ con.tables = pre

\* C5 amended: a run that fails after the clear and before COMMIT ends with
\* the tables as before the load and with no document in the vector store
\* but those the run itself added before it failed: none when it failed
\* before the first stored chapter was extracted.
C5_FailedLoadLeavesOnlyNewDocuments ==
    (Ended /\ failed_at \in BeforeCommit) =>
        /\ Range(collection) \subseteq Range(add_calls)
        /\ (fetched.xml = <<>> => collection = <<>>)
        /\ con.tables = pre

\* C5's case: over an earlier load with documents, a run that fails after a
\* title numbered 10 or less was extracted and stored
C5_Witness ==
    /\ Ended
    /\ failed_at = "versions fetch"
    /\ pre_collection # <<>>
    /\ pre # EmptyTables
    /\ collection # <<>>

-----------------------------------------------------------------------------
(* Properties of the Chunker, checked under ChunkSpec *)

Budget == max_chunk_size * 4

\* the words of all chunks, in chunk order
RECURSIVE WordsOfChunks(_)
WordsOfChunks(cs) ==
    IF cs = <<>> THEN <<>> ELSE Split(cs[1]) \o WordsOfChunks(Tail(cs))

\* a text with its ends stripped and each run of whitespace replaced by one
\* space, character by character
RECURSIVE NormalizeFrom(_, _, _, _)
NormalizeFrom(s, i, gap, acc) ==
    IF i > Len(s) THEN acc
    ELSE IF s[i] \in Whitespace
         THEN NormalizeFrom(s, i + 1, acc # <<>>, acc)
         ELSE NormalizeFrom(s, i + 1, FALSE,
                            IF gap THEN acc \o <<" ", s[i]>> ELSE Append(acc, s[i]))

Normalize(s) == NormalizeFrom(s, 1, FALSE, <<>>)

\* C6: every chunk chunk_text returns has at most max_chunk_size*4 characters,
\* unless it consists of one word that is itself longer than that; for the
\* first chunk and for every later one.
C6_ChunkWithinBudget ==
    cpc = "returned" =>
        \A k \in 1..Len(chunks) :
            \/ Len(chunks[k]) <= Budget
            \/ /\ Len(Split(chunks[k])) = 1
               /\ Len(Split(chunks[k])[1]) > Budget

\* C7: splitting each returned chunk on whitespace and concatenating the word
\* lists in chunk order gives text.split(): no word lost, duplicated,
\* reordered or cut in two.
C7_WordsPreserved ==
    cpc = "returned" => WordsOfChunks(chunks) = Split(text)

\* C7's case: a text of several words, one of them longer than the budget
\* and returned as a chunk of its own
C7_Witness ==
    /\ cpc = "returned"
    /\ Budget > 0
    /\ Len(Split(text)) >= 2
    /\ Len(chunks) >= 2
    /\ \E k \in 1..Len(chunks) : Len(chunks[k]) > Budget /\ Len(Split(chunks[k])) = 1

\* C8 as stated: every text shorter than max_chunk_size*4, the empty and the
\* whitespace-only text included, gives exactly one chunk, the normalized
\* text, and chunking that chunk again returns it unchanged.
C8_ShortTextOneChunk ==
    (cpc = "returned" /\ Len(text) < Budget) =>
        /\ Len(chunks) = 1
        /\ chunks[1] = Normalize(text)
        /\ chunk_text(chunks[1], max_chunk_size) = chunks

\* C8 amended: every text shorter than max_chunk_size*4 that holds at least
\* one word gives exactly one chunk, the normalized text, and chunking that
\* chunk again returns it unchanged; a text without any word gives no chunk.
C8_ShortTextOneChunkIfWords ==
    (cpc = "returned" /\ Len(text) < Budget) =>
        IF Split(text) = <<>>
        THEN chunks = <<>>
        ELSE /\ Len(chunks) = 1
             /\ chunks[1] = Normalize(text)
             /\ chunk_text(chunks[1], max_chunk_size) = chunks

\* C8's case: a short text of several words with whitespace to normalize
C8_Witness ==
    /\ cpc = "returned"
    /\ Len(text) < Budget
    /\ Len(Split(text)) >= 2
    /\ Normalize(text) # text
    /\ Len(chunks) = 1

-----------------------------------------------------------------------------
(* Properties of the Extractor, checked under XmlSpec *)

Returned == xpc = "returned" /\ arg_xml.present /\ arg_xml.wellformed

\* the chapters of the document given: the positions of the elements of
\* structural type CHAPTER
RECURSIVE ChapterElements(_, _)
ChapterElements(elems, i) ==
    IF i > Len(elems) THEN <<>>
    ELSE IF elems[i].TYPE = "CHAPTER" THEN <<i>> \o ChapterElements(elems, i + 1)
    ELSE ChapterElements(elems, i + 1)

ArgChapters == ChapterElements(arg_xml.elems, 1)

\* whether the chapter at position i of the document is to be indexed
ToBeIndexed(i) ==
    /\ arg_title <= 10
    /\ JoinedLength(TextWords(arg_xml.elems, i)) >= 101

\* what identifies a chapter in an add call, and the same of a chapter element
CallKey(c) ==
    [title |-> c.metadata.title, chapter |-> c.metadata.chapter,
     word_count |-> c.metadata.word_count]
ChapterKey(i) ==
    [title |-> ToString(arg_title), chapter |-> Str(arg_xml.elems[i].N),
     word_count |-> Len(TextWords(arg_xml.elems, i))]

IsFirstChunk(c) == "chunk" \in DOMAIN c.metadata => c.metadata.chunk = 1

\* the chapters forwarded to the store, in order: one per first-chunk add call
Forwarded ==
    LET firsts == SelectSeq(add_calls, IsFirstChunk)
    IN  [j \in 1..Len(firsts) |-> CallKey(firsts[j])]

\* the chapters that are to be indexed, in document order
Expected ==
    LET want == SelectSeq(ArgChapters, ToBeIndexed)
    IN  [j \in 1..Len(want) |-> ChapterKey(want[j])]

\* C9: for a well-formed document with k chapter elements the mapping
\* returned has exactly k+1 keys, one per chapter element plus "total".
C9_KeysAreChaptersPlusTotal ==
    Returned =>
        /\ Cardinality(DictKeys(chapter_word_counts)) = Len(ArgChapters) + 1
        /\ "total" \in DictKeys(chapter_word_counts)

\* the threshold of C10 alone: the chapters forwarded to the store are
\* exactly those of a title numbered at most 10 whose cleaned text is longer
\* than 100 characters.
ForwardedIffLongAndEarly ==
    Returned => Forwarded = Expected

\* C10: a chapter is forwarded to the store if and only if the title number
\* is at most 10 and its cleaned text is longer than 100 characters, and a
\* chapter that is skipped still has its word count in the mapping returned.
C10_ForwardedIffAndSkippedCounted ==
    Returned =>
        /\ Forwarded = Expected
        /\ \A j \in 1..Len(ArgChapters) :
              LET i == ArgChapters[j]
              IN  ~ToBeIndexed(i) =>
                    /\ arg_xml.elems[i].N \in DictKeys(chapter_word_counts)
                    /\ DictGet(chapter_word_counts, arg_xml.elems[i].N)
                           = Len(TextWords(arg_xml.elems, i))

\* the chapters that are to be indexed, by position in the document
Wanted == SelectSeq(ArgChapters, ToBeIndexed)

\* the add calls that carry a first chunk, by ordinal
RECURSIVE FirstCallsFrom(_)
FirstCallsFrom(k) ==
    IF k > Len(add_calls) THEN <<>>
    ELSE IF IsFirstChunk(add_calls[k]) THEN <<k>> \o FirstCallsFrom(k + 1)
    ELSE FirstCallsFrom(k + 1)

FirstCalls == FirstCallsFrom(1)

\* the chapter an add call belongs to, as an index into Wanted: the chapter
\* of the last first-chunk call at or before it
ChapterOfCall(k) == Cardinality({j \in DOMAIN FirstCalls : FirstCalls[j] <= k})

\* the number of chunks chunk_text makes of the chapter at position i
ChunkCount(i) ==
    LET words == TextWords(arg_xml.elems, i)
    IN  Len(ChunkWords(words, words, DefaultMaxChunkSize))

\* the id and the metadata of add call k have the documented form: the id
\* is title_{T}_chapter_{C}, and the suffix _chunk_{i} and the metadata
\* chunk and total_chunks are there exactly when the chapter has several chunks
IdAsDocumented(k) ==
    LET c == add_calls[k]
        n == ChunkCount(Wanted[ChapterOfCall(k)])
        base == "title_" \o c.metadata.title \o "_chapter_" \o c.metadata.chapter
    IN  IF n > 1
        THEN /\ {"chunk", "total_chunks"} \subseteq DOMAIN c.metadata
             /\ c.metadata.chunk \in 1..n
             /\ c.metadata.total_chunks = n
             /\ c.id = base \o "_chunk_" \o ToString(c.metadata.chunk)
        ELSE /\ {"chunk", "total_chunks"} \cap DOMAIN c.metadata = {}
             /\ c.id = base

\* the form of the ids alone: every document handed to the store has the
\* documented id and metadata.
IdsCarrySuffixIffChunked ==
    Returned => \A k \in DOMAIN add_calls : IdAsDocumented(k)

\* C11: no two documents added to the vector store during one extraction
\* carry the same id, and every id has the documented form, with the chunk
\* suffix and the chunk metadata exactly for a chapter of several chunks.
C11_DocumentIdsUnique ==
    Returned =>
        /\ \A k \in DOMAIN add_calls : IdAsDocumented(k)
        /\ \A k, m \in DOMAIN add_calls : k # m => add_calls[k].id # add_calls[m].id

\* the store after the add calls have all their effect: what raised is not
\* stored, and what did not raise is, under its id
LaterCallsStored(k) ==
    \A m \in DOMAIN add_calls :
        (m > k /\ ~add_raised[m]) => add_calls[m] \in Range(collection)

\* the mapping holds the word count of the chapter of add call k
CountKept(k) ==
    \E key \in DictKeys(chapter_word_counts) :
        /\ Str(key) = add_calls[k].metadata.chapter
        /\ DictGet(chapter_word_counts, key) = add_calls[k].metadata.word_count

\* the handling of a raising add alone: the chapters after it are still
\* handed to the store, whatever the store stores is under the id given, and
\* the mapping has a key for the failed chapter and the key "total".
AddFailureContained ==
    Returned =>
        /\ Forwarded = Expected
        /\ \A k \in DOMAIN add_calls :
              add_raised[k] =>
                /\ \A m \in DOMAIN add_calls :
                      (m > k /\ ~add_raised[m]) => add_calls[m].id \in Ids(collection)
                /\ \E key \in DictKeys(chapter_word_counts) :
                      Str(key) = add_calls[k].metadata.chapter
                /\ "total" \in DictKeys(chapter_word_counts)

\* C12: when an add raises, every later chapter is still processed and
\* indexed, and the mapping returned still holds the word count of the
\* failed chapter and the key "total".
C12_AddFailureKeepsLaterChapters ==
    Returned =>
        /\ Forwarded = Expected
        /\ \A k \in DOMAIN add_calls :
              add_raised[k] =>
                /\ LaterCallsStored(k)
                /\ CountKept(k)
                /\ "total" \in DictKeys(chapter_word_counts)

-----------------------------------------------------------------------------
(* Properties of the similarity scan, checked under ScanSpec *)

Shown == spc = "shown"

\* the pairs of stored documents of different titles
CrossTitlePairs ==
    {pr \in (DOMAIN collection) \X (DOMAIN collection) :
        /\ pr[1] < pr[2]
        /\ collection[pr[1]].metadata.title # collection[pr[2]].metadata.title}

\* the unordered pair of (title, chapter) keys of two documents' metadata
UnorderedKey(meta1, meta2) == {KeyString(meta1), KeyString(meta2)}

KeyOfPair(pr) == UnorderedKey(collection[pr[1]].metadata, collection[pr[2]].metadata)

\* the pairs of stored chapters of different titles
CrossTitleChapterPairs == {KeyOfPair(pr) : pr \in CrossTitlePairs}

\* the similarity of two chapters: that of their most similar documents
BestSimilarity(key) ==
    LET sims == {Similarity(distances[pr[1]][pr[2]]) :
                    pr \in {q \in CrossTitlePairs : KeyOfPair(q) = key}}
    IN  CHOOSE x \in sims : \A y \in sims : y <= x

ShownKeys == {UnorderedKey(top_pairs[k].doc1_meta, top_pairs[k].doc2_meta) :
                 k \in DOMAIN top_pairs}

\* C13: when no query fails, the pairs shown are the (up to 5) most similar
\* of all pairs of stored chapters of different titles, each with the
\* similarity of the two chapters, so that the most similar cross-title pair
\* of the store comes first.
C13_TopPairsAreTheMostSimilar ==
    (Shown /\ QueryFailures = 0) =>
        /\ Len(top_pairs) = IF Cardinality(CrossTitleChapterPairs) < MaxTopPairs
                            THEN Cardinality(CrossTitleChapterPairs) ELSE MaxTopPairs
        /\ \A k \in DOMAIN top_pairs :
              /\ top_pairs[k].similarity
                     = BestSimilarity(UnorderedKey(top_pairs[k].doc1_meta,
                                                   top_pairs[k].doc2_meta))
              /\ \A key \in CrossTitleChapterPairs \ ShownKeys :
                     BestSimilarity(key) <= top_pairs[k].similarity
        /\ \A pr \in CrossTitlePairs :
              Similarity(distances[pr[1]][pr[2]]) <= top_pairs[1].similarity

\* C14: no pair the scan accumulates or shows has two documents with the
\* same title metadata, whatever the store holds and the queries return.
C14_NoSameTitlePair ==
    /\ \A k \in DOMAIN similarity_pairs :
          similarity_pairs[k].doc1_meta.title # similarity_pairs[k].doc2_meta.title
    /\ \A k \in DOMAIN top_pairs :
          top_pairs[k].doc1_meta.title # top_pairs[k].doc2_meta.title

\* the neighbours the queries returned: <<k, j>> when the query for
\* document k returned document j
Neighbours ==
    {pr \in (DOMAIN query_log) \X (DOMAIN all_docs) :
        \E r \in DOMAIN query_log[pr[1]] : query_log[pr[1]][r].index = pr[2]}

\* C14's case: a query returned another document of the probe's title, and
\* pairs are shown
C14_Witness ==
    /\ Shown
    /\ top_pairs # <<>>
    /\ \E pr \in Neighbours :
          /\ pr[1] # pr[2]
          /\ all_docs[pr[1]].metadata.title = all_docs[pr[2]].metadata.title

\* C15: at most 5 pairs are shown, from the most similar to the least, and
\* no unordered pair of (title, chapter) keys is shown twice.
C15_TopPairsSortedAndUnique ==
    Shown =>
        /\ Len(top_pairs) <= 5
        /\ \A k, m \in DOMAIN top_pairs :
              k < m =>
                /\ top_pairs[k].similarity >= top_pairs[m].similarity
                /\ UnorderedKey(top_pairs[k].doc1_meta, top_pairs[k].doc2_meta)
                       # UnorderedKey(top_pairs[m].doc1_meta, top_pairs[m].doc2_meta)

\* the neighbours of another title
Meetings ==
    {pr \in Neighbours :
        all_docs[pr[1]].metadata.title # all_docs[pr[2]].metadata.title}

\* C15's case: more than 5 pairs were found, of different similarities, a
\* pair was met from the queries of both of its documents, and a pair of
\* chapters was met from two chunks of one of them
C15_Witness ==
    /\ Shown
    /\ Len(similarity_pairs) > 5
    /\ top_pairs[1].similarity > top_pairs[5].similarity
    /\ \E pr \in Meetings : <<pr[2], pr[1]>> \in Meetings
    /\ \E pr, qr \in Meetings :
          /\ pr[1] # qr[1]
          /\ pr[2] = qr[2]
          /\ KeyString(all_docs[pr[1]].metadata) = KeyString(all_docs[qr[1]].metadata)

-----------------------------------------------------------------------------
(* Further properties of the Relational Loader, checked under Spec *)

\* the numbers of the rows of titles and the names of the rows of agencies
TitleNumbersLoaded == {con.tables.titles[k].number : k \in DOMAIN con.tables.titles}
AgencyNamesLoaded == {con.tables.agencies[k].name : k \in DOMAIN con.tables.agencies}

\* the references of C16 that hold: word counts and versions refer to a
\* title of the load, references to an agency of the load.
RowsReferToLoadedRows ==
    (Ended /\ committed) =>
        /\ \A k \in DOMAIN con.tables.word_counts :
              con.tables.word_counts[k].title \in TitleNumbersLoaded
        /\ \A k \in DOMAIN con.tables.content_versions :
              con.tables.content_versions[k].title \in TitleNumbersLoaded
        /\ \A k \in DOMAIN con.tables.agency_cfr_references :
              con.tables.agency_cfr_references[k].agency_name \in AgencyNamesLoaded

\* C16: after a committed load every word_counts and content_versions row
\* has the number of a titles row, and every agency_cfr_references row has
\* the name of an agencies row and the number of a titles row of that load.
C16_ReferentialIntegrity ==
    (Ended /\ committed) =>
        /\ \A k \in DOMAIN con.tables.word_counts :
              con.tables.word_counts[k].title \in TitleNumbersLoaded
        /\ \A k \in DOMAIN con.tables.content_versions :
              con.tables.content_versions[k].title \in TitleNumbersLoaded
        /\ \A k \in DOMAIN con.tables.agency_cfr_references :
              /\ con.tables.agency_cfr_references[k].agency_name \in AgencyNamesLoaded
              /\ con.tables.agency_cfr_references[k].title \in TitleNumbersLoaded

\* the version entries fetched during the run, title after title
RECURSIVE FetchedVersionsFrom(_)
FetchedVersionsFrom(i) ==
    IF i > Len(fetched.versions) THEN <<>>
    ELSE fetched.versions[i] \o FetchedVersionsFrom(i + 1)

FetchedVersions == FetchedVersionsFrom(1)

\* the text fields of the agencies rows equal the upstream values, an absent
\* value being stored as the empty text
AgencyTextAsUpstream ==
    /\ Len(con.tables.agencies) = Len(agencies)
    /\ \A k \in DOMAIN agencies :
          /\ con.tables.agencies[k].name = agencies[k].name
          /\ con.tables.agencies[k].short_name = OrEmpty(agencies[k].short_name)
          /\ con.tables.agencies[k].display_name = OrEmpty(agencies[k].display_name)
          /\ con.tables.agencies[k].sortable_name = OrEmpty(agencies[k].sortable_name)
          /\ con.tables.agencies[k].slug = OrEmpty(agencies[k].slug)

\* the part of C18 on the string-built inserts alone
AgencyTextStoredVerbatim ==
    (Ended /\ committed) => AgencyTextAsUpstream

\* C18: after a committed load the name and the subpart of every
\* content_versions row equal those of the upstream version entry character
\* for character, and the text fields of every agencies row equal the
\* upstream values.
C18_TextStoredVerbatim ==
    (Ended /\ committed) =>
        /\ Len(con.tables.content_versions) = Len(FetchedVersions)
        /\ \A k \in DOMAIN FetchedVersions :
              /\ con.tables.content_versions[k].name = FetchedVersions[k].name
              /\ con.tables.content_versions[k].subpart
                     = OrEmpty(FetchedVersions[k].subpart)
        /\ AgencyTextAsUpstream

-----------------------------------------------------------------------------
(* A further property of the Chunker, checked under ChunkSpec *)

\* C17: chunk_text returns no empty chunk and at most as many chunks as the
\* text has words, also when the first word is longer than max_chunk_size*4.
C17_NoEmptyChunk ==
    cpc = "returned" =>
        /\ \A k \in 1..Len(chunks) : chunks[k] # <<>>
        /\ Len(chunks) <= Len(Split(text))

====
